---- MODULE Spec2Model ----
(***************************************************************************)
(* Feature-flag evaluation and rollout engine of the JurisAI backend:     *)
(*   src/apps/backend/src/models/feature_flag.py   (FeatureFlag)          *)
(*   src/apps/backend/src/services/feature_flags.py (FeatureFlagService)  *)
(* The evaluator FeatureFlag.is_active_for_user is modelled as an         *)
(* operator; the service (database table, Redis cache, clock) as a state  *)
(* machine.                                                                *)
(***************************************************************************)
EXTENDS Integers, FiniteSets, Sequences, TLC

VARIABLES
    evalIn,     \* the evaluator's inputs: flag record, user_id, user_groups, context
    evalOut,    \* the evaluator's answer for evalIn at time now, once computed
    now,        \* datetime.now(), in seconds
    db,         \* the feature_flags table: flag key -> set holding the row, if any
    redis,      \* the Redis keyspace: the set of live entries [key, value, written, expires]
    lastCall,   \* the last read call (is_enabled / get_user_flags) and what it returned
    currentEnv, \* the deployment tier the calling process runs in
    nticks,     \* clock advances made so far
    nops,       \* service calls made so far
    redisMode,  \* the Redis client: "ok", "none" (redis_client is None), "error" (calls raise)
    dbUp,       \* whether database queries succeed
    next_id,    \* the next value of the feature_flags.id sequence
    procs       \* the service calls in progress step by step, per worker process

vars == <<evalIn, evalOut, now, db, redis, lastCall, currentEnv, nticks, nops,
          redisMode, dbUp, next_id, procs>>

(***************************************************************************)
(* Bounds of the model.                                                    *)
(***************************************************************************)
\* start_date / end_date of the evaluator's inputs range over 1..MaxDate,
\* the evaluator's clock over 0..MaxDate+1.
MaxDate == 2
\* Number of clock advances of the service model.
MaxTicks == 2
\* Number of service calls (reads and administrative writes) of a run.
MaxOps == 4

(***************************************************************************)
(* Input domains.                                                          *)
(***************************************************************************)
Keys == {"dark_mode", "beta_search"}
UserIds == {"1", "2"}
Groups == {"admin", "beta_users"}
Environments == {"production", "staging"}
\* rollout_percentage values used (a Float in [0,100] in the source)
Percentages == {0, 30, 100}
\* A JSON dict is modelled as the set of its <<key, value>> items.
EmptyDict == {}
\* caller-supplied contexts, and the context_filters a flag may carry
Contexts == {EmptyDict, {<<"region", "west">>}, {<<"region", "east">>}}
FilterDicts == {EmptyDict, {<<"region", "west">>}}
\* A nullable DateTime column: <<>> is None, <<t>> is the date t.
NoDate == <<>>
DateOf(t) == <<t>>
IsSet(d) == d # NoDate
Dates == {NoDate} \cup {DateOf(t) : t \in 1..MaxDate}

(***************************************************************************)
(* FeatureFlag.is_active_for_user, rule by rule.                           *)
(***************************************************************************)
\* hashlib.md5(f"{key}:{user_id}").hexdigest() as an integer, modulo 100:
\* the values MD5 yields for the keys and user ids of the model.
user_hash(key, user_id) ==
    CASE key = "dark_mode"   /\ user_id = "1" -> 41
      [] key = "dark_mode"   /\ user_id = "2" -> 5
      [] key = "beta_search" /\ user_id = "1" -> 26
      [] key = "beta_search" /\ user_id = "2" -> 91

\* "if not self.enabled: return False"
GloballyDisabled_dropped(flag) == FALSE
GloballyDisabled(flag) == ~flag.enabled

\* "if self.start_date and now < self.start_date: return False"
BeforeStart_inclusive(flag, t) == IsSet(flag.start_date) /\ t <= flag.start_date[1]
BeforeStart(flag, t) == IsSet(flag.start_date) /\ t < flag.start_date[1]

\* "if self.end_date and now > self.end_date: return False"
AfterEnd(flag, t) == IsSet(flag.end_date) /\ t > flag.end_date[1]

\* "if self.excluded_user_ids and user_id in self.excluded_user_ids"
IsExcluded(flag, user_id) ==
    flag.excluded_user_ids # {} /\ user_id \in flag.excluded_user_ids

\* "if self.targeted_user_ids and user_id in self.targeted_user_ids"
IsTargetedUser_dropped(flag, user_id) == FALSE
IsTargetedUser(flag, user_id) ==
    flag.targeted_user_ids # {} /\ user_id \in flag.targeted_user_ids

\* "if self.targeted_user_groups and user_groups: for group in user_groups:
\*      if group in self.targeted_user_groups: return True"
InTargetedGroup_all(flag, user_groups) ==
    flag.targeted_user_groups # {} /\ user_groups # {}
        /\ \A group \in user_groups : group \in flag.targeted_user_groups
InTargetedGroup(flag, user_groups) ==
    flag.targeted_user_groups # {} /\ user_groups # {}
        /\ \E group \in user_groups : group \in flag.targeted_user_groups

\* The rollout rule with its comparison turned round: the buckets above
\* the percentage are in
InRollout_above(flag, user_id) ==
    flag.rollout_percentage > 0
        /\ user_hash(flag.key, user_id) > flag.rollout_percentage

\* "if self.rollout_percentage > 0: ... return user_hash < self.rollout_percentage"
InRollout_fraction(flag, user_id) ==
    flag.rollout_percentage > 0
        /\ user_hash(flag.key, user_id) < flag.rollout_percentage \div 100
InRollout(flag, user_id) ==
    flag.rollout_percentage > 0
        /\ user_hash(flag.key, user_id) < flag.rollout_percentage

\* The method with the inclusion rule tried before the exclusion rule
is_active_for_user_inclusion_first(flag, user_id, user_groups, context, t) ==
    IF GloballyDisabled(flag) THEN FALSE
    ELSE IF BeforeStart(flag, t) THEN FALSE
    ELSE IF AfterEnd(flag, t) THEN FALSE
    ELSE IF IsTargetedUser(flag, user_id) THEN TRUE
    ELSE IF IsExcluded(flag, user_id) THEN FALSE
    ELSE IF InTargetedGroup(flag, user_groups) THEN TRUE
    ELSE InRollout(flag, user_id)

\* The method itself; t is the value datetime.now() returns. The context
\* argument is accepted and, as in the source, read by no rule; nor is
\* flag.context_filters or flag.environment.
is_active_for_user(flag, user_id, user_groups, context, t) ==
    IF GloballyDisabled(flag) THEN FALSE
    ELSE IF BeforeStart(flag, t) THEN FALSE
    ELSE IF AfterEnd(flag, t) THEN FALSE
    ELSE IF IsExcluded(flag, user_id) THEN FALSE
    ELSE IF IsTargetedUser(flag, user_id) THEN TRUE
    ELSE IF InTargetedGroup(flag, user_groups) THEN TRUE
    ELSE InRollout(flag, user_id)

(***************************************************************************)
(* The evaluator on its own: inputs drawn from bounded sets, the method    *)
(* applied at the current time, the clock advancing.                       *)
(***************************************************************************)
NoFlag == {}
NoCall == [op |-> "none"]
NoInput == <<>>
Pending == [done |-> FALSE, result |-> FALSE]

EvalFlags ==
    [key : Keys, enabled : BOOLEAN, rollout_percentage : Percentages,
     targeted_user_ids : SUBSET UserIds, targeted_user_groups : SUBSET Groups,
     excluded_user_ids : SUBSET UserIds, environment : {"production"},
     context_filters : FilterDicts, start_date : Dates, end_date : Dates]

EvalInputs ==
    [flag : EvalFlags, user_id : UserIds, user_groups : SUBSET Groups,
     context : Contexts]

InitEval ==
    /\ evalIn \in EvalInputs
    /\ evalOut = Pending
    /\ now = 0
    /\ db = [k \in Keys |-> NoFlag]
    /\ redis = {}
    /\ lastCall = NoCall
    /\ currentEnv = "production"
    /\ nticks = 0
    /\ nops = 0
    /\ redisMode = "ok"
    /\ dbUp = TRUE
    /\ next_id = 1
    /\ procs = <<>>

\* flag.is_active_for_user(user_id, user_groups, context) called at time now
Evaluate ==
    /\ ~evalOut.done
    /\ evalOut' = [done |-> TRUE,
                   result |-> is_active_for_user(evalIn.flag, evalIn.user_id,
                                  evalIn.user_groups, evalIn.context, now)]
    /\ UNCHANGED <<evalIn, now, db, redis, lastCall, currentEnv, nticks, nops,
                   redisMode, dbUp, next_id, procs>>

\* the wall clock advances; an answer computed earlier is no longer current
EvalTick ==
    /\ now <= MaxDate
    /\ now' = now + 1
    /\ evalOut' = Pending
    /\ UNCHANGED <<evalIn, db, redis, lastCall, currentEnv, nticks, nops,
                   redisMode, dbUp, next_id, procs>>

NextEval == Evaluate \/ EvalTick

SpecEval == InitEval /\ [][NextEval]_vars

(***************************************************************************)
(* Python values the validators and the cache patterns work on: strings as *)
(* the sequence of their runs of characters, and the float NaN.            *)
(***************************************************************************)
\* The strings that occur as flag keys and user ids, run by run: a run is a
\* maximal stretch of letters and digits, or one other character.
Text(s) ==
    CASE s = "dark_mode"   -> <<"dark", "_", "mode">>
      [] s = "Dark_Mode"   -> <<"Dark", "_", "Mode">>
      [] s = "dark"        -> <<"dark">>
      [] s = "beta_search" -> <<"beta", "_", "search">>
      [] s = "bad key"     -> <<"bad", " ", "key">>
      [] s = "evaluation"  -> <<"evaluation">>
      [] s = "config"      -> <<"config">>
      [] s = "user_flags"  -> <<"user_flags">>
      [] s = "1"           -> <<"1">>
      [] s = "2"           -> <<"2">>
      [] OTHER             -> <<>>

Strings == {"dark_mode", "Dark_Mode", "dark", "beta_search", "bad key", "1", "2", ""}

\* the string made of the given runs
StringOf(runs) == CHOOSE s \in Strings : Text(s) = runs

\* str.replace(old, ''): the runs other than old
str_replace(runs, old) == SelectSeq(runs, LAMBDA c : c # old)

\* str.isalnum(): not empty, and letters and digits only
isalnum(runs) ==
    /\ runs # <<>>
    /\ \A i \in 1..Len(runs) : runs[i] \in {"dark", "Dark", "mode", "Mode", "beta",
                                            "search", "bad", "key", "1", "2"}

\* str.lower(), run by run
lower(runs) ==
    [i \in 1..Len(runs) |->
        CASE runs[i] = "Dark" -> "dark"
          [] runs[i] = "Mode" -> "mode"
          [] OTHER -> runs[i]]

\* float('nan') as a rollout percentage: a value that is neither below, nor
\* above, nor equal to any number
NaN == -1000

\* a < b on floats: False when either side is NaN
float_lt(a, b) == a # NaN /\ b # NaN /\ a < b

\* a <= b on floats: False when either side is NaN
float_le(a, b) == a # NaN /\ b # NaN /\ a <= b

(***************************************************************************)
(* FeatureFlagService: the users table, the Redis client, the cache keys.  *)
(***************************************************************************)
evalVars == <<evalIn, evalOut>>

\* what a whole service call leaves alone, besides the call counter
callFrame == <<evalIn, evalOut, now, currentEnv, nticks, redisMode, dbUp, procs>>

\* self.cache_ttl, seconds
cache_ttl == 300

\* The users table (role: the legacy column; roles: the RBAC relationship).
UserRow(user_id) ==
    CASE user_id = "1" -> {[role |-> "admin", roles |-> {}]}
      [] user_id = "2" -> {[role |-> "user", roles |-> {"beta_users"}]}
      [] OTHER -> {}

\* FeatureFlagService._get_user_groups: [] for an unknown user or when the
\* query raises, else the legacy role followed by the names of the RBAC roles
get_user_groups(user_id) ==
    IF ~dbUp \/ UserRow(user_id) = {} THEN {}
    ELSE LET user == CHOOSE r \in UserRow(user_id) : TRUE
         IN  (IF user.role # "" THEN {user.role} ELSE {}) \cup user.roles

\* the evaluation key without the user: one entry per flag
EvaluationKey_per_flag(flag_key, user_id) == <<"evaluation", flag_key, "">>

\* f"{cache_prefix}:evaluation:{flag_key}:{user_id}" and its siblings, as
\* the sequence of their ':'-separated segments after the prefix
EvaluationKey(flag_key, user_id) == <<"evaluation", flag_key, user_id>>
ConfigKey(flag_key) == <<"config", flag_key>>
UserFlagsKey(user_id) == <<"user_flags", user_id>>

\* redis_client.get: the set holding the value of a live key, else empty
redis_get(r, key, t) ==
    {e.value : e \in {x \in r : x.key = key /\ x.expires > t}}

\* redis_client.setex(key, ttl, value) at time t with the TTL doubled
redis_setex_double_ttl(r, key, ttl, value, t) ==
    {x \in r : x.key # key}
        \cup {[key |-> key, value |-> value, written |-> t, expires |-> t + ttl + ttl]}

\* redis_client.setex(key, ttl, value) at time t (written: when it was set)
redis_setex(r, key, ttl, value, t) ==
    {x \in r : x.key # key}
        \cup {[key |-> key, value |-> value, written |-> t, expires |-> t + ttl]}

\* redis_client.delete(*keys)
redis_delete(r, keys) == {x \in r : x.key \notin keys}

\* "if redis_client: try: redis_client.get(key) except: warning": nothing is
\* read when the client is None or the call raises
try_cache_get(r, key, t) ==
    IF redisMode = "ok" THEN redis_get(r, key, t) ELSE {}

\* "if redis_client: try: redis_client.setex(...) except: warning"
try_cache_setex(r, key, ttl, value, t) ==
    IF redisMode = "ok" THEN redis_setex(r, key, ttl, value, t) ELSE r

\* seconds since the live entry under key was set
cache_age(r, key, t) ==
    LET e == CHOOSE x \in r : x.key = key /\ x.expires > t
    IN  t - e.written

\* the keys a SCAN collects for the pattern "evaluation:{flag_key}", the
\* trailing ":*" left out
scan_evaluation_exact(r, flag_key) ==
    {x.key : x \in {y \in r : y.key = <<"evaluation", flag_key>>}}

\* a cache key as the string Redis holds, after the prefix: its segments
\* joined by ":"
RECURSIVE KeyString(_)
KeyString(key) ==
    IF key = <<>> THEN <<>>
    ELSE IF Len(key) = 1 THEN Text(key[1])
    ELSE Text(key[1]) \o <<":">> \o KeyString(Tail(key))

\* Redis glob matching of a string against a pattern ("*": any run of
\* characters, possibly empty)
RECURSIVE glob_match(_, _)
glob_match(pattern, string) ==
    IF pattern = <<>> THEN string = <<>>
    ELSE IF Head(pattern) = "*"
    THEN \/ glob_match(Tail(pattern), string)
         \/ string # <<>> /\ glob_match(pattern, Tail(string))
    ELSE /\ string # <<>>
         /\ Head(string) = Head(pattern)
         /\ glob_match(Tail(pattern), Tail(string))

\* the keys a SCAN loop collects for a pattern
scan_iter(r, pattern) ==
    {x.key : x \in {y \in r : glob_match(pattern, KeyString(y.key))}}

\* the keys collected for "evaluation:{flag_key}*", no ":" before the "*"
scan_evaluation_prefix(r, flag_key) ==
    scan_iter(r, KeyString(<<"evaluation", flag_key>>) \o <<"*">>)

\* the keys a SCAN loop collects for "evaluation:{flag_key}:*"
scan_evaluation(r, flag_key) ==
    scan_iter(r, KeyString(<<"evaluation", flag_key>>) \o <<":", "*">>)

\* the keys a SCAN loop collects for "user_flags:*"
scan_user_flags(r) ==
    scan_iter(r, KeyString(<<"user_flags">>) \o <<":", "*">>)

\* _invalidate_flag_caches without its try/except: a Redis error propagates
invalidate_flag_caches_raising(r, flag_key) ==
    LET r1 == redis_delete(r, {ConfigKey(flag_key)})
        r2 == redis_delete(r1, scan_evaluation(r1, flag_key))
    IN  CASE redisMode = "none"  -> [redis |-> r, status |-> "skipped", raised |-> FALSE]
          [] redisMode = "error" -> [redis |-> r, status |-> "failed", raised |-> TRUE]
          [] OTHER -> [redis |-> redis_delete(r2, scan_user_flags(r2)),
                       status |-> "done", raised |-> FALSE]

\* _invalidate_flag_caches leaving the evaluation entries in place
invalidate_flag_caches_config_only(r, flag_key) ==
    LET r1 == redis_delete(r, {ConfigKey(flag_key)})
    IN  CASE redisMode = "none"  -> [redis |-> r, status |-> "skipped", raised |-> FALSE]
          [] redisMode = "error" -> [redis |-> r, status |-> "failed", raised |-> FALSE]
          [] OTHER -> [redis |-> redis_delete(r1, scan_user_flags(r1)),
                       status |-> "done", raised |-> FALSE]

\* FeatureFlagService._invalidate_flag_caches: returns at once when
\* redis_client is None; a Redis error is logged and swallowed, the keyspace
\* left as it was; otherwise the flag's config entry, its evaluation entries
\* and every user_flags entry are deleted
invalidate_flag_caches(r, flag_key) ==
    LET r1 == redis_delete(r, {ConfigKey(flag_key)})
        r2 == redis_delete(r1, scan_evaluation(r1, flag_key))
    IN  CASE redisMode = "none"  -> [redis |-> r, status |-> "skipped", raised |-> FALSE]
          [] redisMode = "error" -> [redis |-> r, status |-> "failed", raised |-> FALSE]
          [] OTHER -> [redis |-> redis_delete(r2, scan_user_flags(r2)),
                       status |-> "done", raised |-> FALSE]

\* the <<key, value>> pairs an invalidation removed
purged(before, after) == {<<x.key, x.value>> : x \in before \ after}

\* db.query(FeatureFlag).filter(FeatureFlag.key == flag_key).first()
query_flag(table, flag_key) ==
    IF flag_key \in DOMAIN table THEN table[flag_key] ELSE NoFlag

\* json.dumps(flag.to_dict()) succeeds only if no value is a datetime; the
\* dict always carries created_at, which is never null for a stored row
to_dict_json_ok(flag) == ~IsSet(flag.created_at)

\* _get_flag_config without the inner try/except around its cache calls: a
\* Redis error lands in the outer handler, which returns None
get_flag_config_no_inner_handler(table, r, flag_key, t) ==
    LET flag == IF dbUp /\ redisMode # "error" THEN query_flag(table, flag_key)
                ELSE NoFlag
        row  == CHOOSE f \in flag : TRUE
    IN  [flag  |-> flag,
         redis |-> IF flag # NoFlag /\ to_dict_json_ok(row)
                   THEN try_cache_setex(r, ConfigKey(flag_key), cache_ttl, row, t)
                   ELSE r]

\* FeatureFlagService._get_flag_config: the row (or none) it returns, the
\* keyspace it leaves, what the cache read gave and whether the table was
\* queried; the cached config is read and not used ("if cached_config:
\* pass"), the query follows in every case; a failing query is caught and
\* None returned
get_flag_config(table, r, flag_key, t) ==
    LET cached == try_cache_get(r, ConfigKey(flag_key), t)
        flag   == IF dbUp THEN query_flag(table, flag_key) ELSE NoFlag
        row    == CHOOSE f \in flag : TRUE
    IN  [flag    |-> flag,
         cached  |-> cached,
         queried |-> TRUE,
         redis   |-> IF flag # NoFlag /\ to_dict_json_ok(row)
                     THEN try_cache_setex(r, ConfigKey(flag_key), cache_ttl, row, t)
                     ELSE r]

(***************************************************************************)
(* FeatureFlagService: the operations, each one whole call.                *)
(***************************************************************************)
\* Fields update_flag never assigns
ProtectedFields == {"id", "key", "created_at", "created_by"}

WriteOps == {"create_flag", "update_flag", "delete_flag"}

\* is_enabled's answer when _get_flag_config returns no flag, were it True
flag_not_found_open == TRUE

\* is_enabled: "if not flag: ... return False"
flag_not_found == FALSE

\* FeatureFlagService.is_enabled(flag_key, user_id, context); the call
\* record keeps the age of the entry a hit was served from and the
\* administrative write on this flag that the call directly follows, if any
is_enabled(flag_key, user_id, context) ==
    LET cache_key     == EvaluationKey(flag_key, user_id)
        cached_result == try_cache_get(redis, cache_key, now)
        cfg           == get_flag_config(db, redis, flag_key, now)
        flag          == CHOOSE f \in cfg.flag : TRUE
        user_groups   == get_user_groups(user_id)
        answer        == is_active_for_user(flag, user_id, user_groups, context, now)
        after         == IF lastCall.op \in WriteOps /\ lastCall.key = flag_key
                         THEN lastCall ELSE NoCall
        Return(v, hit, age) ==
            lastCall' = [op |-> "is_enabled", key |-> flag_key, user_id |-> user_id,
                         context |-> context, result |-> v, cache_hit |-> hit,
                         cache_age |-> age, after |-> after]
    IN  /\ IF cached_result # {}
           THEN /\ Return("1" \in cached_result, TRUE, cache_age(redis, cache_key, now))
                /\ redis' = redis
           ELSE IF cfg.flag = NoFlag
           THEN /\ Return(flag_not_found, FALSE, 0)
                /\ redis' = cfg.redis
           ELSE /\ Return(answer, FALSE, 0)
                /\ redis' = try_cache_setex(cfg.redis, cache_key, cache_ttl,
                                            IF answer THEN "1" ELSE "0", now)
        /\ UNCHANGED <<callFrame, db, next_id>>

\* db.query(FeatureFlag).all(), the filter on enabled left out
active_flags_unfiltered(table) ==
    UNION {table[k] : k \in DOMAIN table}

\* db.query(FeatureFlag).filter(FeatureFlag.enabled == True).all()
active_flags(table) ==
    {f \in UNION {table[k] : k \in DOMAIN table} : f.enabled}

\* FeatureFlagService.get_user_flags(user_id, context): a failing query
\* ends in the outer handler, which returns {}
get_user_flags(user_id, context) ==
    LET cache_key    == UserFlagsKey(user_id)
        cached_flags == try_cache_get(redis, cache_key, now)
        user_groups  == get_user_groups(user_id)
        user_flags   ==
            {<<flag.key, is_active_for_user(flag, user_id, user_groups, context, now)>> :
                flag \in active_flags(db)}
        Return(v, hit) ==
            lastCall' = [op |-> "get_user_flags", user_id |-> user_id,
                         context |-> context, result |-> v, cache_hit |-> hit]
    IN  /\ IF cached_flags # {}
           THEN /\ Return(CHOOSE d \in cached_flags : TRUE, TRUE)
                /\ redis' = redis
           ELSE IF ~dbUp
           THEN /\ Return(EmptyDict, FALSE)
                /\ redis' = redis
           ELSE /\ Return(user_flags, FALSE)
                /\ redis' = try_cache_setex(redis, cache_key, cache_ttl, user_flags, now)
        /\ UNCHANGED <<callFrame, db, next_id>>

\* FeatureFlag.validate_rollout_percentage
validate_rollout_percentage(value) == ~(float_lt(value, 0) \/ float_lt(100, value))

\* FeatureFlag.validate_key: whether the value passes "if not value or not
\* value.replace('_', '').replace('-', '').isalnum(): raise ValueError"
validate_key(value) ==
    /\ value # ""
    /\ isalnum(str_replace(str_replace(Text(value), "_"), "-"))

\* FeatureFlag.validate_key's return value, value.lower(): what is stored
stored_key(value) == StringOf(lower(Text(value)))

\* FeatureFlag(**flag_data, created_by=created_by) once stored: id from the
\* table's sequence, created_at and updated_at from the column defaults
new_flag(flag_data, created_by, id, t) ==
    [id |-> id, key |-> stored_key(flag_data.key), enabled |-> flag_data.enabled,
     rollout_percentage |-> flag_data.rollout_percentage,
     targeted_user_ids |-> flag_data.targeted_user_ids,
     targeted_user_groups |-> flag_data.targeted_user_groups,
     excluded_user_ids |-> flag_data.excluded_user_ids,
     environment |-> flag_data.environment,
     context_filters |-> flag_data.context_filters,
     start_date |-> flag_data.start_date,
     end_date |-> flag_data.end_date,
     created_by |-> created_by,
     created_at |-> DateOf(t), updated_at |-> DateOf(t)]

\* FeatureFlagService.create_flag(flag_data, created_by): the row is built
\* (validators run), inserted (the key column is unique), committed, and the
\* flag's caches are invalidated; any exception rolls back and is re-raised
create_flag(flag_data, created_by) ==
    LET row == new_flag(flag_data, created_by, next_id, now)
        inv == invalidate_flag_caches(redis, row.key)
        Return(v, status, gone) ==
            lastCall' = [op |-> "create_flag", key |-> flag_data.key, result |-> v,
                         before |-> NoFlag,
                         invalidation |-> status, invalidated |-> gone]
    IN  /\ IF ~dbUp \/ ~validate_rollout_percentage(flag_data.rollout_percentage)
              \/ ~validate_key(flag_data.key)
              \/ query_flag(db, row.key) # NoFlag
           THEN /\ Return("raised", "none", {})
                /\ UNCHANGED <<db, redis, next_id>>
           ELSE /\ Return(IF inv.raised THEN "raised" ELSE "created",
                          inv.status, purged(redis, inv.redis))
                /\ db' = [db EXCEPT ![row.key] = {row}]
                /\ next_id' = next_id + 1
                /\ redis' = inv.redis
        /\ UNCHANGED callFrame

\* the setattr loop with "key" missing from the list of skipped fields
apply_update_key_writable(flag, update_data) ==
    [field \in DOMAIN flag |->
        IF field \in DOMAIN update_data /\ field \notin ProtectedFields \ {"key"}
        THEN update_data[field] ELSE flag[field]]

\* the "for field, value in update_data.items(): setattr(...)" loop
apply_update(flag, update_data) ==
    [field \in DOMAIN flag |->
        IF field \in DOMAIN update_data /\ field \notin ProtectedFields
        THEN update_data[field] ELSE flag[field]]

\* FeatureFlagService.update_flag(flag_key, update_data)
update_flag(flag_key, update_data) ==
    LET found   == query_flag(db, flag_key)
        flag    == CHOOSE f \in found : TRUE
        updated == [apply_update(flag, update_data) EXCEPT !.updated_at = DateOf(now)]
        inv     == invalidate_flag_caches(redis, flag.key)
        Return(v, before, status, gone) ==
            lastCall' = [op |-> "update_flag", key |-> flag_key, result |-> v,
                         before |-> before, data |-> update_data,
                         invalidation |-> status, invalidated |-> gone]
    IN  /\ IF ~dbUp
           THEN /\ Return("raised", NoFlag, "none", {})
                /\ UNCHANGED <<db, redis>>
           ELSE IF found = NoFlag
           THEN /\ Return("none", NoFlag, "none", {})
                /\ UNCHANGED <<db, redis>>
           ELSE IF "rollout_percentage" \in DOMAIN update_data
                   /\ ~validate_rollout_percentage(update_data.rollout_percentage)
           THEN /\ Return("raised", found, "none", {})
                /\ UNCHANGED <<db, redis>>
           ELSE /\ Return(IF inv.raised THEN "raised" ELSE "updated", found,
                          inv.status, purged(redis, inv.redis))
                /\ db' = [db EXCEPT ![flag_key] = {updated}]
                /\ redis' = inv.redis
        /\ UNCHANGED <<callFrame, next_id>>

\* FeatureFlagService.delete_flag(flag_key): any exception is caught and
\* False returned
delete_flag(flag_key) ==
    LET found == query_flag(db, flag_key)
        inv   == invalidate_flag_caches(redis, flag_key)
        Return(v, before, status, gone) ==
            lastCall' = [op |-> "delete_flag", key |-> flag_key, result |-> v,
                         before |-> before,
                         invalidation |-> status, invalidated |-> gone]
    IN  /\ IF ~dbUp \/ found = NoFlag
           THEN /\ Return(FALSE, NoFlag, "none", {})
                /\ UNCHANGED <<db, redis>>
           ELSE /\ Return(~inv.raised, found, inv.status, purged(redis, inv.redis))
                /\ db' = [db EXCEPT ![flag_key] = NoFlag]
                /\ redis' = inv.redis
        /\ UNCHANGED <<callFrame, next_id>>

\* Time passes by d seconds; Redis drops the keys whose TTL has run out
Tick(d) ==
    /\ nticks < MaxTicks
    /\ nticks' = nticks + 1
    /\ now' = now + d
    /\ redis' = {x \in redis : x.expires > now + d}
    /\ lastCall' = NoCall
    /\ UNCHANGED <<evalVars, db, currentEnv, nops, redisMode, dbUp, next_id, procs>>

(***************************************************************************)
(* The service under administrative writes, reads and the passing of time. *)
(***************************************************************************)
\* create_flag payloads (FeatureFlagCreate.dict()): per key, a fully rolled
\* out flag that ends at time 1, a staging flag targeted at a group, and a
\* disabled flag scheduled to start later
FlagTemplates ==
    {[enabled |-> TRUE, rollout_percentage |-> 100, targeted_user_groups |-> {},
      environment |-> "production", start_date |-> NoDate, end_date |-> DateOf(1)],
     [enabled |-> TRUE, rollout_percentage |-> 0, targeted_user_groups |-> {"admin"},
      environment |-> "staging", start_date |-> NoDate, end_date |-> NoDate],
     [enabled |-> FALSE, rollout_percentage |-> 100, targeted_user_groups |-> {},
      environment |-> "production", start_date |-> DateOf(2), end_date |-> NoDate]}

FlagData ==
    {[key |-> k, enabled |-> t.enabled, rollout_percentage |-> t.rollout_percentage,
      targeted_user_ids |-> {}, targeted_user_groups |-> t.targeted_user_groups,
      excluded_user_ids |-> {}, environment |-> t.environment,
      context_filters |-> EmptyDict, start_date |-> t.start_date,
      end_date |-> t.end_date] : k \in Keys, t \in FlagTemplates}

\* the admin users that create flags (users.id)
AdminIds == {1}

\* update_flag payloads: the non-None fields of FeatureFlagUpdate, and a
\* dict that also names the fields update_flag must not assign
UpdateData ==
    {[enabled |-> FALSE], [enabled |-> TRUE], [rollout_percentage |-> 100],
     [key |-> "beta_search", id |-> 0, created_at |-> DateOf(0), created_by |-> 2,
      rollout_percentage |-> 30]}

TickSteps == {1, cache_ttl}

\* no service call is in progress step by step
NoProcs == <<>>

Init ==
    /\ evalIn = NoInput
    /\ evalOut = Pending
    /\ now = 1
    /\ db = [k \in Keys |-> NoFlag]
    /\ redis = {}
    /\ lastCall = NoCall
    /\ currentEnv \in Environments
    /\ nticks = 0
    /\ nops = 0
    /\ redisMode = "ok"
    /\ dbUp = TRUE
    /\ next_id = 1
    /\ procs = NoProcs

\* one more service call, within the bound
Call == nops < MaxOps /\ nops' = nops + 1

IsEnabled == Call /\ \E k \in Keys, u \in UserIds : is_enabled(k, u, EmptyDict)
GetUserFlags == Call /\ \E u \in UserIds : get_user_flags(u, EmptyDict)
CreateFlag == Call /\ \E d \in FlagData, a \in AdminIds : create_flag(d, a)
UpdateFlag == Call /\ \E k \in Keys, d \in UpdateData : update_flag(k, d)
DeleteFlag == Call /\ \E k \in Keys : delete_flag(k)
ClockTick == \E d \in TickSteps : Tick(d)

Next ==
    IsEnabled \/ GetUserFlags \/ CreateFlag \/ UpdateFlag \/ DeleteFlag \/ ClockTick

Spec == Init /\ [][Next]_vars

(***************************************************************************)
(* The service when Redis and the database can fail: the table starts with *)
(* one flag already created, Redis is absent or present at start-up and    *)
(* its calls, like the database's queries, may start and stop raising.     *)
(***************************************************************************)
\* Number of service calls of a run with failures.
MaxFaultOps == 3

\* the table after one create_flag("dark_mode", ...) by the admin at time 1
CreatedTables ==
    {[k \in Keys |-> IF k = d.key THEN {new_flag(d, 1, 1, 1)} ELSE NoFlag] :
        d \in {x \in FlagData : x.key = "dark_mode"}}

InitFail ==
    /\ evalIn = NoInput
    /\ evalOut = Pending
    /\ now = 1
    /\ db \in CreatedTables
    /\ redis = {}
    /\ lastCall = NoCall
    /\ currentEnv = "production"
    /\ nticks = 0
    /\ nops = 0
    /\ redisMode \in {"ok", "none"}
    /\ dbUp = TRUE
    /\ next_id = 2
    /\ procs = NoProcs

CallF == nops < MaxFaultOps /\ nops' = nops + 1

IsEnabledF == CallF /\ \E k \in Keys, u \in UserIds : is_enabled(k, u, EmptyDict)
GetUserFlagsF == CallF /\ \E u \in UserIds : get_user_flags(u, EmptyDict)
CreateFlagF == CallF /\ \E d \in FlagData, a \in AdminIds : create_flag(d, a)
UpdateFlagF == CallF /\ \E k \in Keys, d \in UpdateData : update_flag(k, d)
DeleteFlagF == CallF /\ \E k \in Keys : delete_flag(k)

\* the environment of a call changes: the last call's record is dropped
Environment(mode, up) ==
    /\ redisMode' = mode
    /\ dbUp' = up
    /\ lastCall' = NoCall
    /\ UNCHANGED <<evalVars, now, db, redis, currentEnv, nticks, nops, next_id, procs>>

\* the Redis server becomes unreachable: every call on the client raises
RedisFails == redisMode = "ok" /\ Environment("error", dbUp)
RedisRecovers == redisMode = "error" /\ Environment("ok", dbUp)
\* the database becomes unreachable: every query raises
DbFails == dbUp /\ Environment(redisMode, FALSE)
DbRecovers == ~dbUp /\ Environment(redisMode, TRUE)

\* one cache TTL passes
Expire == Tick(cache_ttl)

NextFail ==
    \/ IsEnabledF \/ GetUserFlagsF \/ CreateFlagF \/ UpdateFlagF \/ DeleteFlagF
    \/ Expire \/ RedisFails \/ RedisRecovers \/ DbFails \/ DbRecovers

SpecFail == InitFail /\ [][NextFail]_vars

(***************************************************************************)
(* Worker processes running service calls step by step against the shared  *)
(* database and Redis: a process serving is_enabled calls beside one       *)
(* serving an administrative write (SpecRace), and two processes serving   *)
(* one administrative write each (SpecEdits).                              *)
(***************************************************************************)
\* Number of is_enabled calls of the reading process.
MaxReads == 3

Readers == {"r1"}
Writers == {"w1", "w2"}

\* create_flag payload of the flags the table starts with: enabled, fully
\* rolled out, no window
RaceFlagData(k) ==
    [key |-> k, enabled |-> TRUE, rollout_percentage |-> 100,
     targeted_user_ids |-> {}, targeted_user_groups |-> {},
     excluded_user_ids |-> {}, environment |-> "production",
     context_filters |-> EmptyDict, start_date |-> NoDate, end_date |-> NoDate]

\* the row of key k after create_flag at time 1
RaceRow(k) == new_flag(RaceFlagData(k), 1, IF k = "dark_mode" THEN 1 ELSE 2, 1)

\* update_flag payloads of the concurrent writers
RaceUpdates ==
    {[enabled |-> FALSE, rollout_percentage |-> 30],
     [enabled |-> TRUE, rollout_percentage |-> 0],
     [enabled |-> FALSE]}

IdleReader ==
    [pc |-> "idle", key |-> "", user_id |-> "", flag |-> NoFlag, answer |-> FALSE,
     result |-> FALSE, cache_hit |-> FALSE, cache_age |-> 0]

IdleWriter ==
    [pc |-> "idle", op |-> "none", key |-> "", data |-> EmptyDict, flag |-> NoFlag,
     result |-> "none"]

InitRace ==
    /\ evalIn = NoInput
    /\ evalOut = Pending
    /\ now = 1
    /\ db = [k \in Keys |-> {RaceRow(k)}]
    /\ redis = {}
    /\ lastCall = NoCall
    /\ currentEnv = "production"
    /\ nticks = 0
    /\ nops = 0
    /\ redisMode = "ok"
    /\ dbUp = TRUE
    /\ next_id = 3
    /\ procs = [p \in Readers \cup {"w1"} |->
                   IF p \in Readers THEN IdleReader ELSE IdleWriter]

\* what a step of a process leaves alone
stepFrame == <<evalIn, evalOut, now, lastCall, currentEnv, nticks, redisMode, dbUp,
               next_id>>

\* is_enabled, first step: the evaluation cache is read; a hit returns
ReadCache(p) ==
    /\ procs[p].pc = "idle" /\ nops < MaxReads
    /\ \E k \in Keys, u \in UserIds :
          LET cache_key     == EvaluationKey(k, u)
              cached_result == try_cache_get(redis, cache_key, now)
              me == [procs[p] EXCEPT !.key = k, !.user_id = u]
          IN  procs' = [procs EXCEPT ![p] =
                  IF cached_result # {}
                  THEN [me EXCEPT !.result = "1" \in cached_result,
                                  !.cache_hit = TRUE,
                                  !.cache_age = cache_age(redis, cache_key, now)]
                  ELSE [me EXCEPT !.pc = "load", !.cache_hit = FALSE, !.cache_age = 0]]
    /\ nops' = nops + 1
    /\ UNCHANGED <<stepFrame, db, redis>>

\* is_enabled, second step: _get_flag_config reads the row, the user's
\* groups are read and the flag is evaluated; no row returns False
LoadAndEvaluate(p) ==
    /\ procs[p].pc = "load"
    /\ LET cfg  == get_flag_config(db, redis, procs[p].key, now)
           flag == CHOOSE f \in cfg.flag : TRUE
       IN  /\ redis' = cfg.redis
           /\ procs' = [procs EXCEPT ![p] =
                  IF cfg.flag = NoFlag
                  THEN [@ EXCEPT !.pc = "idle", !.result = flag_not_found]
                  ELSE [@ EXCEPT !.pc = "store", !.flag = cfg.flag,
                                 !.answer = is_active_for_user(flag, procs[p].user_id,
                                     get_user_groups(procs[p].user_id), EmptyDict, now)]]
    /\ UNCHANGED <<stepFrame, db, nops>>

\* is_enabled, last step: the answer is cached and returned
WriteCache(p) ==
    /\ procs[p].pc = "store"
    /\ redis' = try_cache_setex(redis, EvaluationKey(procs[p].key, procs[p].user_id),
                                cache_ttl, IF procs[p].answer THEN "1" ELSE "0", now)
    /\ procs' = [procs EXCEPT ![p] =
                    [@ EXCEPT !.pc = "idle", !.result = procs[p].answer,
                              !.flag = NoFlag, !.answer = FALSE]]
    /\ UNCHANGED <<stepFrame, db, nops>>

\* update_flag / delete_flag, first step, in a process the run has: the row
\* is queried; no row returns
LoadFlag(p) ==
    /\ p \in DOMAIN procs /\ procs[p].pc = "idle"
    /\ \E k \in Keys, op \in {"update_flag", "delete_flag"}, d \in RaceUpdates :
          /\ op = "delete_flag" => d = [enabled |-> FALSE]
          /\ LET found == query_flag(db, k)
                 me == [procs[p] EXCEPT !.op = op, !.key = k, !.flag = found,
                            !.data = IF op = "update_flag" THEN d ELSE EmptyDict]
             IN  procs' = [procs EXCEPT ![p] =
                     IF found = NoFlag
                     THEN [me EXCEPT !.pc = "done",
                               !.result = IF op = "update_flag" THEN "none" ELSE "false"]
                     ELSE [me EXCEPT !.pc = "commit"]]
    /\ UNCHANGED <<stepFrame, db, redis, nops>>

\* the UPDATE a Session flush emits for an object loaded as `loaded` and now
\* holding `pending`: it sets the columns whose value differs from the
\* loaded one, on the row as it stands in the table
flush_update(row, loaded, pending) ==
    [c \in DOMAIN row |-> IF pending[c] # loaded[c] THEN pending[c] ELSE row[c]]

\* update_flag / delete_flag, second step: the fields are set and the
\* transaction commits; a row deleted in the meantime makes the flush raise
Commit(p) ==
    /\ p \in DOMAIN procs /\ procs[p].pc = "commit"
    /\ LET k       == procs[p].key
           loaded  == CHOOSE f \in procs[p].flag : TRUE
           pending == [apply_update(loaded, procs[p].data)
                          EXCEPT !.updated_at = DateOf(now)]
           current == CHOOSE f \in db[k] : TRUE
       IN  IF db[k] = NoFlag
           THEN /\ procs' = [procs EXCEPT ![p] =
                       [@ EXCEPT !.pc = "done",
                           !.result = IF procs[p].op = "update_flag" THEN "raised" ELSE "false"]]
                /\ db' = db
           ELSE /\ procs' = [procs EXCEPT ![p] = [@ EXCEPT !.pc = "invalidate"]]
                /\ db' = [db EXCEPT ![k] =
                             IF procs[p].op = "update_flag"
                             THEN {flush_update(current, loaded, pending)}
                             ELSE NoFlag]
    /\ UNCHANGED <<stepFrame, redis, nops>>

\* update_flag / delete_flag, last step: the flag's caches are invalidated
\* and the call returns
Invalidate(p) ==
    /\ p \in DOMAIN procs /\ procs[p].pc = "invalidate"
    /\ redis' = invalidate_flag_caches(redis, procs[p].key).redis
    /\ procs' = [procs EXCEPT ![p] =
                    [@ EXCEPT !.pc = "done",
                        !.result = IF procs[p].op = "update_flag" THEN "updated" ELSE "true"]]
    /\ UNCHANGED <<stepFrame, db, nops>>

\* time passes while processes are between steps
Elapse == ClockTick /\ UNCHANGED procs

ReaderStep == \E p \in Readers : ReadCache(p) \/ LoadAndEvaluate(p) \/ WriteCache(p)
WriterStep == \E p \in Writers : LoadFlag(p) \/ Commit(p) \/ Invalidate(p)

NextRace == ReaderStep \/ WriterStep \/ Elapse

SpecRace == InitRace /\ [][NextRace]_vars

\* two administrative writes in progress at once, nothing else
InitEdits ==
    /\ evalIn = NoInput
    /\ evalOut = Pending
    /\ now = 1
    /\ db = [k \in Keys |-> {RaceRow(k)}]
    /\ redis = {}
    /\ lastCall = NoCall
    /\ currentEnv = "production"
    /\ nticks = 0
    /\ nops = 0
    /\ redisMode = "ok"
    /\ dbUp = TRUE
    /\ next_id = 3
    /\ procs = [p \in Writers |-> IdleWriter]

NextEdits == WriterStep

SpecEdits == InitEdits /\ [][NextEdits]_vars

(***************************************************************************)
(* Worker processes serving POST /admin/flags/{flag_key}/toggle at once.   *)
(***************************************************************************)
\* Number of toggle requests one worker process serves.
MaxToggles == 2

Togglers == {"t1", "t2"}

\* a worker between requests: the requests it has served per key, the value
\* of enabled its last request read and the value that request returned
IdleToggler ==
    [pc |-> "idle", key |-> "", flag |-> NoFlag, seen |-> FALSE, result |-> FALSE,
     served |-> [k \in Keys |-> 0]]

InitToggle ==
    /\ evalIn = NoInput
    /\ evalOut = Pending
    /\ now = 1
    /\ db = [k \in Keys |-> {RaceRow(k)}]
    /\ redis = {}
    /\ lastCall = NoCall
    /\ currentEnv = "production"
    /\ nticks = 0
    /\ nops = 0
    /\ redisMode = "ok"
    /\ dbUp = TRUE
    /\ next_id = 3
    /\ procs = [p \in Togglers |-> IdleToggler]

\* the requests a worker has served
requests(p) == procs[p].served["dark_mode"] + procs[p].served["beta_search"]

\* toggle_feature_flag, first step: _get_flag_config reads the flag; no flag
\* answers 404
ReadFlag(p) ==
    /\ procs[p].pc = "idle" /\ requests(p) < MaxToggles
    /\ \E k \in Keys :
          LET cfg  == get_flag_config(db, redis, k, now)
              flag == CHOOSE f \in cfg.flag : TRUE
          IN  /\ redis' = cfg.redis
              /\ procs' = [procs EXCEPT ![p] =
                     IF cfg.flag = NoFlag
                     THEN [@ EXCEPT !.key = k, !.served[k] = @ + 1]
                     ELSE [@ EXCEPT !.pc = "update", !.key = k, !.flag = cfg.flag,
                                    !.seen = flag.enabled]]
    /\ UNCHANGED <<stepFrame, db, nops>>

\* toggle_feature_flag, second step: update_flag(flag_key, {"enabled": not
\* flag.enabled}) on the request's session, which holds the row as the first
\* step loaded it; the response carries updated_flag.enabled
WriteNegation(p) ==
    /\ procs[p].pc = "update"
    /\ LET k       == procs[p].key
           loaded  == CHOOSE f \in procs[p].flag : TRUE
           pending == [apply_update(loaded, [enabled |-> ~loaded.enabled])
                          EXCEPT !.updated_at = DateOf(now)]
           current == CHOOSE f \in db[k] : TRUE
           stored  == flush_update(current, loaded, pending)
       IN  /\ db[k] # NoFlag
           /\ db' = [db EXCEPT ![k] = {stored}]
           /\ redis' = invalidate_flag_caches(redis, k).redis
           /\ procs' = [procs EXCEPT ![p] =
                  [@ EXCEPT !.pc = "idle", !.flag = NoFlag, !.result = stored.enabled,
                            !.served[k] = @ + 1]]
    /\ UNCHANGED <<stepFrame, nops>>

TogglerStep == \E p \in Togglers : ReadFlag(p) \/ WriteNegation(p)

NextToggle == TogglerStep

SpecToggle == InitToggle /\ [][NextToggle]_vars

(***************************************************************************)
(* The administrative surface: create_flag and update_flag called with any *)
(* payload, and the admin routes, which validate the request body first.   *)
(***************************************************************************)
\* Number of administrative calls of a run.
MaxAdminOps == 3

\* <<start_date, end_date>> of a payload
Windows ==
    {<<NoDate, NoDate>>, <<DateOf(1), NoDate>>, <<DateOf(1), DateOf(2)>>,
     <<DateOf(2), DateOf(1)>>}

\* create payloads: keys that are well-formed, mixed-case and malformed,
\* percentages inside the range, above it and NaN, every window
AdminFlagData ==
    {[key |-> k, enabled |-> TRUE, rollout_percentage |-> p,
      targeted_user_ids |-> {}, targeted_user_groups |-> {},
      excluded_user_ids |-> {}, environment |-> "production",
      context_filters |-> EmptyDict, start_date |-> w[1], end_date |-> w[2]] :
        k \in {"dark_mode", "Dark_Mode", "bad key"}, p \in {30, 101, NaN},
        w \in Windows}

\* update payloads: one field or several, in and out of range
AdminUpdateData ==
    {[enabled |-> FALSE], [rollout_percentage |-> 100], [rollout_percentage |-> 101],
     [rollout_percentage |-> -1], [rollout_percentage |-> NaN],
     [enabled |-> FALSE, rollout_percentage |-> 101],
     [end_date |-> DateOf(1)], [start_date |-> DateOf(2)],
     [start_date |-> DateOf(0), end_date |-> DateOf(2)]}

\* FeatureFlagCreate(**body): the field constraints (min_length, ge/le, regex)
\* and the validators validate_key and validate_end_date all pass
FeatureFlagCreate(body) ==
    /\ body.key # ""
    /\ isalnum(str_replace(str_replace(Text(body.key), "_"), "-"))
    /\ float_le(0, body.rollout_percentage)
    /\ float_le(body.rollout_percentage, 100)
    /\ body.environment \in {"development", "staging", "production"}
    /\ ~(/\ IsSet(body.end_date)
         /\ IsSet(body.start_date)
         /\ body.end_date[1] <= body.start_date[1])

\* FeatureFlagCreate.dict(): validate_key has replaced the key by v.lower()
FeatureFlagCreate_dict(body) == [body EXCEPT !.key = stored_key(body.key)]

\* FeatureFlagUpdate(**body): ge/le on rollout_percentage, the regex on
\* environment; there is no validator
FeatureFlagUpdate(body) ==
    /\ "rollout_percentage" \in DOMAIN body =>
            /\ float_le(0, body.rollout_percentage)
            /\ float_le(body.rollout_percentage, 100)
    /\ "environment" \in DOMAIN body =>
            body.environment \in {"development", "staging", "production"}

\* the request never reaches the handler: FastAPI answers 422
request_rejected(route, flag_key) ==
    /\ lastCall' = [op |-> route, key |-> flag_key, result |-> "rejected"]
    /\ UNCHANGED <<callFrame, db, redis, next_id>>

\* POST /admin/flags
create_feature_flag(body, admin_user) ==
    IF FeatureFlagCreate(body)
    THEN create_flag(FeatureFlagCreate_dict(body), admin_user)
    ELSE request_rejected("create_feature_flag", body.key)

\* PUT /admin/flags/{flag_key}: update_dict holds the fields that are not None
update_feature_flag(flag_key, body) ==
    IF FeatureFlagUpdate(body)
    THEN update_flag(flag_key, body)
    ELSE request_rejected("update_feature_flag", flag_key)

\* DELETE /admin/flags/{flag_key}
delete_feature_flag(flag_key) == delete_flag(flag_key)

\* update_feature_flag's status for what update_flag did: the HTTPException
\* raised inside the try block for a None result is an Exception, so the
\* "except Exception" clause turns it into a 500, as it does a failing store
update_feature_flag_status(result) ==
    CASE result = "updated"  -> 200
      [] result = "rejected" -> 422
      [] result = "none"     -> 500
      [] OTHER               -> 500

\* delete_feature_flag's status for what delete_flag returned
delete_feature_flag_status(success) == IF success THEN 200 ELSE 404

InitAdmin ==
    /\ evalIn = NoInput
    /\ evalOut = Pending
    /\ now = 1
    /\ db = [k \in Keys |-> NoFlag]
    /\ redis = {}
    /\ lastCall = NoCall
    /\ currentEnv = "production"
    /\ nticks = 0
    /\ nops = 0
    /\ redisMode = "ok"
    /\ dbUp = TRUE
    /\ next_id = 1
    /\ procs = NoProcs

CallA == nops < MaxAdminOps /\ nops' = nops + 1

ServiceCreate == CallA /\ \E d \in AdminFlagData, a \in AdminIds : create_flag(d, a)
ServiceUpdate == CallA /\ \E k \in Keys, d \in AdminUpdateData : update_flag(k, d)
RouteCreate ==
    CallA /\ \E d \in AdminFlagData, a \in AdminIds : create_feature_flag(d, a)
RouteUpdate ==
    CallA /\ \E k \in Keys, d \in AdminUpdateData : update_feature_flag(k, d)
RouteDelete == CallA /\ \E k \in Keys : delete_feature_flag(k)
IsEnabledA == CallA /\ \E k \in Keys, u \in UserIds : is_enabled(k, u, EmptyDict)

NextAdmin ==
    \/ ServiceCreate \/ ServiceUpdate \/ RouteCreate \/ RouteUpdate \/ RouteDelete
    \/ IsEnabledA

SpecAdmin == InitAdmin /\ [][NextAdmin]_vars

\* the admin routes alone: every payload passes through the request models
NextRoutes == RouteCreate \/ RouteUpdate \/ RouteDelete \/ IsEnabledA

SpecRoutes == InitAdmin /\ [][NextRoutes]_vars

(***************************************************************************)
(* _get_flag_config as a function of the table and of the Redis keyspace   *)
(* it finds: any table of stored flags, with or without a live entry under *)
(* a flag's config key.                                                    *)
(***************************************************************************)
\* Number of _get_flag_config calls of a run.
MaxLoads == 2

\* per key no row, or the row one create_flag stored at time 1
ConfigTables ==
    {[k \in Keys |-> IF rows[k] = NoFlag THEN NoFlag
                     ELSE {new_flag(CHOOSE d \in rows[k] : TRUE, 1,
                                    IF k = "dark_mode" THEN 1 ELSE 2, 1)}] :
        rows \in [Keys -> {NoFlag} \cup {{d} : d \in FlagData}]}

\* keyspaces: empty, or holding under config:dark_mode the snapshot of a row
ConfigKeyspaces ==
    {{}} \cup {redis_setex({}, ConfigKey("dark_mode"), cache_ttl, new_flag(d, 1, 1, 1), 1) :
                d \in {x \in FlagData : x.key = "dark_mode"}}

InitConfig ==
    /\ evalIn = NoInput
    /\ evalOut = Pending
    /\ now = 1
    /\ db \in {t \in ConfigTables : \A k \in Keys : \A f \in t[k] : f.key = k}
    /\ redis \in ConfigKeyspaces
    /\ lastCall = NoCall
    /\ currentEnv = "production"
    /\ nticks = 0
    /\ nops = 0
    /\ redisMode \in {"ok", "none"}
    /\ dbUp = TRUE
    /\ next_id = 3
    /\ procs = NoProcs

\* one call of _get_flag_config(flag_key)
LoadConfig ==
    /\ nops < MaxLoads
    /\ nops' = nops + 1
    /\ \E k \in Keys :
          LET cfg == get_flag_config(db, redis, k, now)
          IN  /\ lastCall' = [op |-> "get_flag_config", key |-> k,
                              cached |-> cfg.cached, queried |-> cfg.queried,
                              result |-> cfg.flag]
              /\ redis' = cfg.redis
    /\ UNCHANGED <<callFrame, db, next_id>>

NextConfig == LoadConfig \/ Expire

SpecConfig == InitConfig /\ [][NextConfig]_vars

(***************************************************************************)
(* The service under reads alone: the table holds any stored flags and is  *)
(* not written, the cache starts empty, time passes.                       *)
(***************************************************************************)
InitReads ==
    /\ evalIn = NoInput
    /\ evalOut = Pending
    /\ now = 1
    /\ db \in {t \in ConfigTables : \A k \in Keys : \A f \in t[k] : f.key = k}
    /\ redis = {}
    /\ lastCall = NoCall
    /\ currentEnv = "production"
    /\ nticks = 0
    /\ nops = 0
    /\ redisMode = "ok"
    /\ dbUp = TRUE
    /\ next_id = 3
    /\ procs = NoProcs

NextReads == IsEnabled \/ ClockTick

SpecReads == InitReads /\ [][NextReads]_vars

(***************************************************************************)
(* _invalidate_flag_caches as a function of the keyspace it finds: entries *)
(* of flags of which one's key is the beginning of another's.              *)
(***************************************************************************)
\* Number of invalidations of a run.
MaxInvalidations == 2

\* flag keys, "dark" being a prefix of "dark_mode"
ScopeKeys == {"dark", "dark_mode", "beta_search"}

\* the entries the service writes for these flags at time 1: evaluations
\* per user, config snapshots, per-user flag maps
ScopeEntries ==
    {[key |-> EvaluationKey(k, u), value |-> "1", written |-> 1,
      expires |-> 1 + cache_ttl] : k \in ScopeKeys, u \in {"1"}}
    \cup {[key |-> EvaluationKey("dark_mode", "2"), value |-> "0", written |-> 1,
           expires |-> 1 + cache_ttl]}
    \cup {[key |-> ConfigKey(k), value |-> "{}", written |-> 1,
           expires |-> 1 + cache_ttl] : k \in ScopeKeys}
    \cup {[key |-> UserFlagsKey("1"), value |-> "{}", written |-> 1,
           expires |-> 1 + cache_ttl]}

InitInvalidate ==
    /\ evalIn = NoInput
    /\ evalOut = Pending
    /\ now = 1
    /\ db = [k \in Keys |-> NoFlag]
    /\ redis \in SUBSET ScopeEntries
    /\ lastCall = NoCall
    /\ currentEnv = "production"
    /\ nticks = 0
    /\ nops = 0
    /\ redisMode \in {"ok", "none"}
    /\ dbUp = TRUE
    /\ next_id = 1
    /\ procs = NoProcs

\* one call of _invalidate_flag_caches(flag_key)
InvalidateFlag ==
    /\ nops < MaxInvalidations
    /\ nops' = nops + 1
    /\ \E x \in ScopeKeys :
          LET inv == invalidate_flag_caches(redis, x)
          IN  /\ redis' = inv.redis
              /\ lastCall' = [op |-> "invalidate_flag_caches", key |-> x,
                              invalidation |-> inv.status,
                              invalidated |-> purged(redis, inv.redis)]
    /\ UNCHANGED <<callFrame, db, next_id>>

NextInvalidate == InvalidateFlag

SpecInvalidate == InitInvalidate /\ [][NextInvalidate]_vars

(***************************************************************************)
(* The evaluator's contract (checked under SpecEval).                      *)
(***************************************************************************)
F == evalIn.flag
Answered == evalOut.done

\* the window [start_date, end_date], each end open when unset
InsideWindow(flag, t) ==
    /\ (IsSet(flag.start_date) => t >= flag.start_date[1])
    /\ (IsSet(flag.end_date) => t <= flag.end_date[1])

\* every filter item of the flag is matched by the caller's context
ContextMatches(filters, context) == \A item \in filters : item \in context

\* the documented eight-step precedence chain
PrecedenceChain(flag, id, groups, context, t) ==
    IF flag.enabled = FALSE THEN FALSE
    ELSE IF ~InsideWindow(flag, t) THEN FALSE
    ELSE IF id \in flag.excluded_user_ids THEN FALSE
    ELSE IF ~ContextMatches(flag.context_filters, context) THEN FALSE
    ELSE IF id \in flag.targeted_user_ids THEN TRUE
    ELSE IF groups \cap flag.targeted_user_groups # {} THEN TRUE
    ELSE IF flag.rollout_percentage > 0
            /\ user_hash(flag.key, id) < flag.rollout_percentage THEN TRUE
    ELSE FALSE

\* C1: the evaluator returns what the eight-step precedence chain (kill
\* switch, window, exclusion, context filters, targeted ids, targeted groups,
\* rollout, default off) returns, for every flag, subject and time.
C1_EvaluateIsPrecedenceChain ==
    Answered =>
        evalOut.result = PrecedenceChain(F, evalIn.user_id, evalIn.user_groups,
                                         evalIn.context, now)

\* Whenever the caller's context matches the flag's filters, the evaluator
\* and the chain agree: the context step is the only place they differ.
EvaluateIsChainWhenContextMatches ==
    Answered /\ ContextMatches(F.context_filters, evalIn.context) =>
        evalOut.result = PrecedenceChain(F, evalIn.user_id, evalIn.user_groups,
                                         evalIn.context, now)

\* C2: a flag with enabled = false is off for every subject, whatever its
\* targeting, rollout percentage and time window.
C2_KillSwitchWins == Answered /\ ~F.enabled => ~evalOut.result

C2_Witness ==
    /\ Answered /\ ~F.enabled /\ ~evalOut.result
    /\ F.rollout_percentage = 100
    /\ evalIn.user_id \in F.targeted_user_ids
    /\ evalIn.user_groups \cap F.targeted_user_groups # {}
    /\ InsideWindow(F, now)

\* C3: a subject whose id is excluded is off, even when the id is also
\* targeted, one of its groups is targeted, or the rollout is 100%.
C3_ExclusionWins ==
    Answered /\ evalIn.user_id \in F.excluded_user_ids => ~evalOut.result

C3_Witness ==
    /\ Answered /\ F.enabled /\ InsideWindow(F, now)
    /\ evalIn.user_id \in F.excluded_user_ids
    /\ evalIn.user_id \in F.targeted_user_ids
    /\ evalIn.user_groups \cap F.targeted_user_groups # {}
    /\ F.rollout_percentage = 100
    /\ ~evalOut.result

\* C4: with rollout 0, an enabled flag inside its window is on for a
\* non-excluded subject whose id is targeted, and off for a subject that is
\* neither targeted by id nor in a targeted group.
C4_InclusionBeatsRollout ==
    Answered /\ F.enabled /\ InsideWindow(F, now) /\ F.rollout_percentage = 0
        => /\ (evalIn.user_id \in F.targeted_user_ids
                  /\ evalIn.user_id \notin F.excluded_user_ids => evalOut.result)
           /\ (evalIn.user_id \notin F.targeted_user_ids
                  /\ evalIn.user_groups \cap F.targeted_user_groups = {}
                  => ~evalOut.result)

C4_Witness ==
    /\ Answered /\ F.enabled /\ InsideWindow(F, now) /\ F.rollout_percentage = 0
    /\ evalIn.user_id \in F.targeted_user_ids
    /\ evalIn.user_id \notin F.excluded_user_ids
    /\ evalIn.user_groups \cap F.targeted_user_groups = {}
    /\ evalOut.result

\* C5: an enabled flag inside its window is on for a non-excluded subject
\* with a group in targeted_user_groups, whatever the rollout percentage and
\* the bucket; without such a group (and without id targeting) the answer is
\* the rollout rule's alone.
C5_GroupAboveRollout ==
    Answered /\ F.enabled /\ InsideWindow(F, now)
             /\ evalIn.user_id \notin F.excluded_user_ids
        => /\ (evalIn.user_groups \cap F.targeted_user_groups # {} => evalOut.result)
           /\ (evalIn.user_groups \cap F.targeted_user_groups = {}
                  /\ evalIn.user_id \notin F.targeted_user_ids
                  => evalOut.result =
                        (F.rollout_percentage > 0
                         /\ user_hash(F.key, evalIn.user_id) < F.rollout_percentage))

C5_Witness ==
    /\ Answered /\ F.enabled /\ InsideWindow(F, now)
    /\ evalIn.user_id \notin F.excluded_user_ids
    /\ evalIn.user_id \notin F.targeted_user_ids
    /\ evalIn.user_groups = Groups
    /\ F.targeted_user_groups = {"admin"}
    /\ F.rollout_percentage = 0
    /\ evalOut.result

\* C6: a flag with a context filter the caller's context does not match is
\* off, even for a targeted subject or under a 100% rollout.
C6_ContextFiltersGate ==
    Answered /\ ~ContextMatches(F.context_filters, evalIn.context) => ~evalOut.result

\* the flag with its window removed, all else equal
WithoutWindow(flag) == [flag EXCEPT !.start_date = NoDate, !.end_date = NoDate]

\* C7: when the other rules put the flag on, the answer is false at every
\* time before start_date and after end_date and true inside the window; a
\* start_date in the future gives false until the clock reaches it.
C7_TimeWindow ==
    Answered /\ is_active_for_user(WithoutWindow(F), evalIn.user_id,
                                   evalIn.user_groups, evalIn.context, now)
        => evalOut.result = InsideWindow(F, now)

C7_Witness ==
    /\ Answered /\ IsSet(F.start_date) /\ now = F.start_date[1]
    /\ IsSet(F.end_date) /\ now < F.end_date[1]
    /\ evalOut.result

\* C9: an enabled flag inside its window with rollout 100 is on for every
\* id that is not excluded, whatever its bucket, and off for every excluded id.
C9_FullRollout ==
    Answered /\ F.enabled /\ InsideWindow(F, now) /\ F.rollout_percentage = 100
        => evalOut.result = (evalIn.user_id \notin F.excluded_user_ids)

C9_Witness ==
    /\ Answered /\ F.enabled /\ InsideWindow(F, now) /\ F.rollout_percentage = 100
    /\ F.targeted_user_ids = {} /\ F.targeted_user_groups = {}
    /\ F.excluded_user_ids = {"1"}
    /\ evalIn.user_id = "2" /\ F.key = "beta_search"
    /\ evalOut.result

(***************************************************************************)
(* The read path's contract (checked under Spec).                          *)
(***************************************************************************)
\* the stored row the last call was about
CalledFlag == CHOOSE f \in db[lastCall.key] : TRUE

\* C8: an is_enabled call made after the flag's end_date or before its
\* start_date returns false, also when a result was cached while the window
\* was open.
C8_IsEnabledRespectsWindow ==
    lastCall.op = "is_enabled" /\ db[lastCall.key] # NoFlag
        /\ ~InsideWindow(CalledFlag, now)
        => ~lastCall.result

\* A freshly computed answer does respect the window: only a cache hit can
\* return true outside it.
UncachedIsEnabledRespectsWindow ==
    lastCall.op = "is_enabled" /\ ~lastCall.cache_hit /\ db[lastCall.key] # NoFlag
        /\ ~InsideWindow(CalledFlag, now)
        => ~lastCall.result

\* C10: is_enabled and get_user_flags report no flag as on whose environment
\* differs from the caller's current environment.
C10_EnvironmentPartition ==
    /\ lastCall.op = "is_enabled" /\ db[lastCall.key] # NoFlag
          /\ CalledFlag.environment # currentEnv
          => ~lastCall.result
    /\ lastCall.op = "get_user_flags" /\ ~lastCall.cache_hit
          => \A item \in lastCall.result :
                item[2] => \A f \in db[item[1]] : f.environment = currentEnv

(***************************************************************************)
(* The service's contract with failures possible (checked under SpecFail). *)
(***************************************************************************)
\* the single row of a query result
Row(found) == CHOOSE f \in found : TRUE

\* the answer evaluated afresh from the stored row for the last call's user
FreshAnswer ==
    is_active_for_user(CalledFlag, lastCall.user_id,
                       get_user_groups(lastCall.user_id), lastCall.context, now)

C13_CacheDownSameAnswer ==
    lastCall.op = "is_enabled" /\ redisMode # "ok" /\ dbUp /\ db[lastCall.key] # NoFlag
        => lastCall.result = FreshAnswer

C13_Witness ==
    /\ lastCall.op = "is_enabled" /\ redisMode = "error" /\ dbUp
    /\ db[lastCall.key] # NoFlag
    /\ lastCall.result /\ ~lastCall.cache_hit
    /\ redis # {}

\* C14: get_user_flags, on a cache miss with the database reachable, returns
\* one entry per stored flag with enabled = true and no other, each valued
\* by the evaluation of that flag for the user, its groups and the context.
C14_BatchEvaluation ==
    lastCall.op = "get_user_flags" /\ ~lastCall.cache_hit /\ dbUp
        => /\ {item[1] : item \in lastCall.result}
                 = {k \in Keys : \E f \in db[k] : f.enabled}
           /\ \A item \in lastCall.result : \A f \in db[item[1]] :
                 item[2] = is_active_for_user(f, lastCall.user_id,
                               get_user_groups(lastCall.user_id), lastCall.context, now)
           /\ \A a, b \in lastCall.result : a[1] = b[1] => a = b

\* two enabled flags with different answers beside none disabled, or one on
\* beside a disabled flag
C14_Witness ==
    /\ lastCall.op = "get_user_flags" /\ ~lastCall.cache_hit /\ dbUp
    /\ \E a, b \in lastCall.result : a[2] /\ ~b[2]
    /\ redisMode = "ok"

\* the store holds what the last administrative write committed
Committed ==
    CASE lastCall.op = "create_flag" ->
            /\ db[lastCall.key] # NoFlag
            /\ CalledFlag.created_at = DateOf(now)
      [] lastCall.op = "update_flag" ->
            db[lastCall.key] =
                {[apply_update(Row(lastCall.before), lastCall.data)
                     EXCEPT !.updated_at = DateOf(now)]}
      [] lastCall.op = "delete_flag" -> db[lastCall.key] = NoFlag
      [] OTHER -> FALSE

\* the last administrative write returned success to its caller
Succeeded ==
    CASE lastCall.op = "create_flag" -> lastCall.result = "created"
      [] lastCall.op = "update_flag" -> lastCall.result = "updated"
      [] lastCall.op = "delete_flag" -> lastCall.result = TRUE
      [] OTHER -> FALSE

\* C15: when create_flag, update_flag or delete_flag returns success with
\* Redis reachable, the write is committed, the invalidation has run, and
\* Redis holds no config entry and no evaluation entry of the flag.
C15_SynchronousInvalidation ==
    lastCall.op \in WriteOps /\ Succeeded /\ redisMode = "ok"
        => /\ Committed
           /\ lastCall.invalidation = "done"
           /\ \A e \in redis :
                 /\ e.key # ConfigKey(lastCall.key)
                 /\ ~(e.key[1] = "evaluation" /\ e.key[2] = lastCall.key)

C15_Witness ==
    /\ lastCall.op = "update_flag" /\ Succeeded /\ redisMode = "ok"
    /\ \E u \in UserIds, v \in {"0", "1"} :
          <<EvaluationKey(lastCall.key, u), v>> \in lastCall.invalidated

\* the last is_enabled call directly follows an update_flag on its flag that
\* turned enabled from true to false and invalidated the flag's caches
FollowsDisable ==
    /\ lastCall.op = "is_enabled"
    /\ lastCall.after.op = "update_flag"
    /\ lastCall.after.result = "updated"
    /\ lastCall.after.invalidation = "done"
    /\ Row(lastCall.after.before).enabled
    /\ ~CalledFlag.enabled

\* C16: the is_enabled call that follows an update_flag which turned enabled
\* from true to false (Redis reachable) returns false, whatever earlier
\* is_enabled calls had cached.
C16_DisableTakesEffect == FollowsDisable => ~lastCall.result

\* the update removed a cached "1" of the very user that asks next
C16_Witness ==
    /\ FollowsDisable
    /\ <<EvaluationKey(lastCall.key, lastCall.user_id), "1">>
          \in lastCall.after.invalidated
    /\ ~lastCall.result

\* C17: when the invalidation of create_flag, update_flag or delete_flag is
\* skipped (no Redis client) or fails (Redis raises), the write is committed
\* and the call returns success; an is_enabled answer served from the cache
\* comes from an entry younger than cache_ttl, and every entry expires no
\* later than cache_ttl after it was set.
C17_InvalidationFailureTolerated ==
    /\ lastCall.op \in WriteOps /\ lastCall.invalidation \in {"failed", "skipped"}
          => Succeeded /\ Committed
    /\ lastCall.op = "is_enabled" /\ lastCall.cache_hit
          => lastCall.cache_age < cache_ttl
    /\ \A e \in redis : e.expires <= e.written + cache_ttl /\ now < e.expires

\* a "1" cached before the flag was disabled is served after the write whose
\* invalidation failed
C17_Witness ==
    /\ lastCall.op = "is_enabled" /\ lastCall.cache_hit /\ lastCall.result
    /\ db[lastCall.key] # NoFlag /\ ~CalledFlag.enabled
    /\ redisMode = "ok"

\* C20: update_flag leaves key, id, created_at and created_by as they were,
\* also when update_data names them, and every stored row is found under
\* its own key.
C20_KeyImmutable ==
    /\ lastCall.op = "update_flag" /\ lastCall.result = "updated"
          => /\ CalledFlag.key = Row(lastCall.before).key
             /\ CalledFlag.id = Row(lastCall.before).id
             /\ CalledFlag.created_at = Row(lastCall.before).created_at
             /\ CalledFlag.created_by = Row(lastCall.before).created_by
    /\ \A k \in Keys : \A f \in db[k] : f.key = k

C20_Witness ==
    /\ lastCall.op = "update_flag" /\ lastCall.result = "updated"
    /\ "key" \in DOMAIN lastCall.data /\ lastCall.data.key # lastCall.key
    /\ lastCall.data.created_at # CalledFlag.created_at
    /\ CalledFlag.rollout_percentage = lastCall.data.rollout_percentage
    /\ Row(lastCall.before).rollout_percentage # lastCall.data.rollout_percentage


(***************************************************************************)
(* Calls in progress at once (checked under SpecRace and SpecEdits).       *)
(***************************************************************************)
\* the reading process completes an is_enabled call from the cache
ReturnsHit(p) ==
    /\ procs[p].pc = "idle" /\ procs'[p].pc = "idle"
    /\ nops' # nops
    /\ procs'[p].cache_hit

\* the entry process p is about to write in its last step
PendingEntry(p) ==
    [key |-> EvaluationKey(procs[p].key, procs[p].user_id),
     value |-> IF procs[p].answer THEN "1" ELSE "0",
     written |-> now, expires |-> now + cache_ttl]

\* C18: however an is_enabled call interleaves with an update_flag or
\* delete_flag on the same flag, every cache entry lives no longer than
\* cache_ttl after it was written, a cache hit leaves the cache as it is,
\* and an entry is only ever written by the last step of an is_enabled
\* call that evaluated a row read from the database: a decision computed
\* from the row as it was before the write is served for less than cache_ttl
\* and the first call after that reads the database again.
C18_StaleEntryExpires ==
    [][/\ \A e \in redis' :
             e.written <= now' /\ now' < e.expires /\ e.expires <= e.written + cache_ttl
       /\ \A p \in Readers :
             ReturnsHit(p) => redis' = redis /\ procs'[p].cache_age < cache_ttl
       /\ \A e \in redis' \ redis :
             \E p \in Readers : procs[p].pc = "store" /\ e = PendingEntry(p)]_vars

\* a "1" computed from the row read before update_flag disabled the flag was
\* cached after the invalidation and is served, one second old
C18_Witness ==
    /\ procs["w1"].pc = "done" /\ procs["w1"].result = "updated"
    /\ \A f \in db[procs["w1"].key] : ~f.enabled
    /\ procs["r1"].pc = "idle" /\ procs["r1"].key = procs["w1"].key
    /\ procs["r1"].cache_hit /\ procs["r1"].result
    /\ procs["r1"].cache_age > 0

\* rows a and b agree on every column but updated_at
SameButTimestamp(a, b) == [a EXCEPT !.updated_at = b.updated_at] = b

\* C19: when two concurrent update_flag calls on the same key have both
\* returned, the stored row is what the two updates applied one after the
\* other, in one order or the other, give; on different keys each row is
\* what its own update gives.
C19_EditsSerializable ==
    \A a, b \in Writers :
        a # b /\ procs[a].pc = "done" /\ procs[b].pc = "done"
            /\ procs[a].result = "updated" /\ procs[b].result = "updated"
        => LET ka == procs[a].key
               kb == procs[b].key
               A  == procs[a].data
               B  == procs[b].data
           IN  IF ka = kb
               THEN \/ SameButTimestamp(Row(db[ka]),
                           apply_update(apply_update(RaceRow(ka), A), B))
                    \/ SameButTimestamp(Row(db[ka]),
                           apply_update(apply_update(RaceRow(ka), B), A))
               ELSE /\ SameButTimestamp(Row(db[ka]), apply_update(RaceRow(ka), A))
                    /\ SameButTimestamp(Row(db[kb]), apply_update(RaceRow(kb), B))

\* Edits to different keys do leave each other's rows alone.
EditsOfDifferentKeysIndependent ==
    \A a, b \in Writers :
        a # b /\ procs[a].pc = "done" /\ procs[b].pc = "done"
            /\ procs[a].result = "updated" /\ procs[b].result = "updated"
            /\ procs[a].key # procs[b].key
        => SameButTimestamp(Row(db[procs[a].key]),
                            apply_update(RaceRow(procs[a].key), procs[a].data))

(***************************************************************************)
(* The administrative contract (checked under SpecAdmin and SpecFail).     *)
(***************************************************************************)
\* the rows of the table
StoredFlags == UNION {db[k] : k \in DOMAIN db}

\* C21: Rollout invariant: after any sequence of create_flag and update_flag
\* calls with arbitrary payloads, every stored flag has
\* 0 <= rollout_percentage <= 100.
C21_RolloutInRange ==
    \A f \in StoredFlags :
        float_le(0, f.rollout_percentage) /\ float_le(f.rollout_percentage, 100)

\* every stored percentage that is a number lies in the range: what the
\* validator's two comparisons do enforce
NumericRolloutInRange ==
    \A f \in StoredFlags :
        f.rollout_percentage # NaN =>
            0 <= f.rollout_percentage /\ f.rollout_percentage <= 100

\* a flag's window is well formed: endDate strictly after startDate when
\* both are set
WindowOk(f) ==
    IsSet(f.start_date) /\ IsSet(f.end_date) => f.start_date[1] < f.end_date[1]

\* C22: Window invariant: after any sequence of administrative creates and
\* updates, through the service or the admin routes, every stored flag that
\* has both startDate and endDate set has endDate strictly after startDate.
C22_WindowInvariant == \A f \in StoredFlags : WindowOk(f)

\* a stored row is a valid definition: percentage in range, key well formed,
\* window well formed
ValidDefinition(f) ==
    /\ float_le(0, f.rollout_percentage) /\ float_le(f.rollout_percentage, 100)
    /\ validate_key(f.key)
    /\ WindowOk(f)

\* C23: Validate-then-write: a create_flag or update_flag call given an
\* invalid definition raises and leaves the table as it was; so a call that
\* raised changed no row, and a call that wrote left a valid definition.
C23_ValidateThenWrite ==
    [][lastCall'.op \in {"create_flag", "update_flag"} =>
          /\ lastCall'.result = "raised" => db' = db
          /\ lastCall'.result \in {"created", "updated"} =>
                \A f \in db'[stored_key(lastCall'.key)] : ValidDefinition(f)]_vars

\* the part of C23 the validators do enforce: a call given a percentage out
\* of range or a malformed key raises, and a call that raises writes nothing
BadValueWritesNothing ==
    [][lastCall'.op \in {"create_flag", "update_flag"} =>
          /\ lastCall'.result = "raised" => db' = db
          /\ lastCall'.result \in {"created", "updated"} =>
                \A f \in db'[stored_key(lastCall'.key)] :
                    /\ f.rollout_percentage # NaN =>
                          0 <= f.rollout_percentage /\ f.rollout_percentage <= 100
                    /\ validate_key(f.key)]_vars

\* what the caller of an administrative operation is told: delete_flag's
\* False is "not found" to its caller (delete_feature_flag answers 404)
Outcome(call) ==
    CASE call.op = "create_flag" ->
            IF call.result = "created" THEN "success" ELSE "error"
      [] call.op = "update_flag" ->
            CASE call.result = "updated" -> "success"
              [] call.result = "none"    -> "not_found"
              [] OTHER                   -> "error"
      [] call.op = "delete_flag" ->
            IF call.result THEN "success" ELSE "not_found"

\* C24: Administrative errors are propagated: when the store fails during
\* create_flag, update_flag or delete_flag, the caller is told of an error,
\* which is neither success nor "not found".
C24_StoreFailureReported ==
    lastCall.op \in WriteOps /\ ~dbUp => Outcome(lastCall) = "error"

\* C25: Unknown key in administrative operations: update_flag on a key that
\* is not in the table returns None and delete_flag returns False, the admin
\* routes answer 404 to both, and table and cache are left unchanged.
C25_UnknownKey ==
    [][/\ lastCall'.op \in {"update_flag", "delete_flag"}
       /\ dbUp
       /\ query_flag(db, lastCall'.key) = NoFlag
       => /\ lastCall'.op = "update_flag" =>
                /\ lastCall'.result = "none"
                /\ update_feature_flag_status(lastCall'.result) = 404
          /\ lastCall'.op = "delete_flag" =>
                /\ lastCall'.result = FALSE
                /\ delete_feature_flag_status(lastCall'.result) = 404
          /\ db' = db
          /\ redis' = redis]_vars

\* the part of C25 below the routes: the service's return values and the
\* untouched table and cache
UnknownKeyInService ==
    [][/\ lastCall'.op \in {"update_flag", "delete_flag"}
       /\ dbUp
       /\ query_flag(db, lastCall'.key) = NoFlag
       => /\ lastCall'.op = "update_flag" => lastCall'.result = "none"
          /\ lastCall'.op = "delete_flag" => lastCall'.result = FALSE
          /\ db' = db
          /\ redis' = redis]_vars

ConfigLoadedFromTable ==
    lastCall.op = "get_flag_config" =>
        lastCall.queried /\ lastCall.result = db[lastCall.key]

\* no call of the service leaves an entry under a config key: to_dict()
\* carries datetime values, json.dumps raises, the setex is never reached
ConfigNeverCached == \A x \in redis : x.key[1] # "config"

(***************************************************************************)
(* Toggle requests served at once (checked under SpecToggle).              *)
(***************************************************************************)
\* the toggle requests served on key k, over all workers
Toggled(k) == procs["t1"].served[k] + procs["t2"].served[k]

\* v negated n times
NegatedTimes(v, n) == IF n % 2 = 0 THEN v ELSE ~v

\* C27: Toggle is atomic per flag: for every interleaving of n toggle calls
\* on the same flag the final enabled value is the original negated n times;
\* two concurrent toggles leave the flag in its original state.
C27_ToggleAtomic ==
    (\A p \in Togglers : procs[p].pc = "idle") =>
        \A k \in Keys : \A f \in db[k] :
            f.enabled = NegatedTimes(RaceRow(k).enabled, Toggled(k))

\* the first half of C27: a toggle stores and returns the negation of the
\* value of enabled it read
ToggleReturnsNegation ==
    \A p \in Togglers :
        procs[p].pc = "idle" /\ requests(p) > 0 =>
            /\ procs[p].result = ~procs[p].seen
            /\ \/ \A f \in db[procs[p].key] : f.enabled = procs[p].result
               \/ \E q \in Togglers \ {p} : procs[q].served[procs[p].key] > 0

(***************************************************************************)
(* The rollout percentage as a dial (checked under SpecEval).              *)
(***************************************************************************)
\* the evaluated flag with its rollout percentage set to p
WithRollout(p) == [F EXCEPT !.rollout_percentage = p]

\* C28: Rollout is monotone: for a fixed flag, subject, groups and time, if
\* the flag is on at rollout percentage p it is on at every percentage
\* p' >= p, the other fields unchanged.
C28_RolloutMonotone ==
    Answered /\ evalOut.result =>
        \A p \in Percentages :
            p >= F.rollout_percentage =>
                is_active_for_user(WithRollout(p), evalIn.user_id,
                                   evalIn.user_groups, evalIn.context, now)

\* a flag that is on for the subject through the rollout rule alone, at a
\* percentage below 100
C28_Witness ==
    /\ Answered /\ evalOut.result
    /\ F.rollout_percentage = 30
    /\ ~IsTargetedUser(F, evalIn.user_id)
    /\ ~InTargetedGroup(F, evalIn.user_groups)

(***************************************************************************)
(* The evaluation cache against the service without it (SpecReads).        *)
(***************************************************************************)
\* what is_enabled returns with redis_client = None: the evaluation of the
\* stored row, False when there is none
UncachedAnswer == IF db[lastCall.key] = NoFlag THEN flag_not_found ELSE FreshAnswer

\* since the start of the run the called flag's start or end date was passed
DateCrossed ==
    \E f \in db[lastCall.key] :
        \E t \in 1..now : InsideWindow(f, t) # InsideWindow(f, now)

\* C29: The cache is transparent when nothing changes: in a run of
\* is_enabled calls with no flag written, no groups changed and no start or
\* end date crossed, every call returns what the service without a cache
\* returns, the evaluation of the stored row for the subject.
C29_CacheTransparent ==
    lastCall.op = "is_enabled" /\ ~DateCrossed => lastCall.result = UncachedAnswer

\* a hit served from an entry written earlier, for a flag that is on
C29_Witness ==
    /\ lastCall.op = "is_enabled" /\ ~DateCrossed
    /\ lastCall.cache_hit /\ lastCall.cache_age > 0
    /\ lastCall.result

(***************************************************************************)
(* The scope of an invalidation (checked under SpecInvalidate).            *)
(***************************************************************************)
\* entry e belongs to flag key x: its config entry or one of its evaluations
EntryOf(e, x) == e.key[1] \in {"config", "evaluation"} /\ e.key[2] = x

\* C30: Invalidation is scoped to one flag: _invalidate_flag_caches(X)
\* deletes the config entry of X, the evaluation entries of X and the
\* per-user flag maps, and leaves the config entry and every evaluation
\* entry of every other key Y unchanged, also when X is a prefix of Y.
C30_InvalidationScoped ==
    [][lastCall'.op = "invalidate_flag_caches" /\ redisMode = "ok" =>
          /\ redis' \subseteq redis
          /\ \A e \in redis' : ~EntryOf(e, lastCall'.key) /\ e.key[1] # "user_flags"
          /\ \A e \in redis :
                e.key[1] \in {"config", "evaluation"} /\ ~EntryOf(e, lastCall'.key)
                    => e \in redis']_vars

\* "dark" was invalidated, an evaluation of it went, and evaluations of
\* "dark_mode" are still cached
C30_Witness ==
    /\ lastCall.op = "invalidate_flag_caches" /\ lastCall.key = "dark"
    /\ <<EvaluationKey("dark", "1"), "1">> \in lastCall.invalidated
    /\ \E e \in redis : e.key = EvaluationKey("dark_mode", "1")
    /\ \E e \in redis : e.key = ConfigKey("dark_mode")

============================================================================
